---- MODULE Spec2Model ----
(***************************************************************************)
(* Model of DopplerExpansion.ipynb: the polynomial basis enumerator        *)
(* poly_basis, the coefficient extractor Coefficient, the weights SA, SB,  *)
(* SC, the harmonic constructor Y, the vector p_Y, the change-of-basis     *)
(* matrix A1, its inverse M and the products M * vec of the last cells.    *)
(*                                                                         *)
(* Numbers.  Every number the notebook produces has the form               *)
(*      (n / d) * sqrt(r) * pi^(e/2)                                       *)
(* with n, d integers, d > 0, gcd(n, d) = 1, r a square-free positive      *)
(* integer and e an integer.  Such a number is the record [n, d, r, e];    *)
(* it is kept in this canonical form, which is what sympy's exact          *)
(* arithmetic (and simplify) produces, so equality of records is equality  *)
(* of numbers.  A sum of two numbers with different r or e is not of this  *)
(* form and is the record NaS; the notebook never forms one.               *)
(*                                                                         *)
(* Polynomials.  A sympy expression in x, y and z = sqrt(1 - x^2 - y^2)    *)
(* is a function from monomials <<a, b, c>> (x^a y^b z^c) to non-zero      *)
(* numbers: sympy's Add collects like terms and drops the ones that        *)
(* cancel.                                                                 *)
(***************************************************************************)
EXTENDS Integers, Sequences, FiniteSets, TLC

\* ------------------------------------------------------------------ bounds

\* largest lmax given to A1
MaxLmax == 3

\* largest index given to a direct call of poly_basis
MaxBasisN == 24

\* largest degree l given to a direct call of SB
MaxSBl == 3

\* ----------------------------------------------------------- integer helpers

Abs(i) == IF i < 0 THEN -i ELSE i

Sgn(i) == IF i < 0 THEN -1 ELSE IF i = 0 THEN 0 ELSE 1

RECURSIVE GcdNat(_, _)
GcdNat(a, b) == IF b = 0 THEN a ELSE GcdNat(b, a % b)

Gcd(a, b) == GcdNat(Abs(a), Abs(b))

RECURSIVE IntFact(_)
IntFact(i) == IF i <= 0 THEN 1 ELSE i * IntFact(i - 1)

RECURSIVE Pow(_, _)
Pow(b, i) == IF i <= 0 THEN 1 ELSE b * Pow(b, i - 1)

\* the largest s with s * s dividing v (v > 0)
SquarePart(v) ==
    LET roots == {s \in 1..v : s * s <= v /\ v % (s * s) = 0}
    IN  CHOOSE s \in roots : \A t \in roots : t <= s

\* floor(sqrt(v)) for an integer v >= 0, exactly (line 96)
FloorSqrt(v) == CHOOSE s \in 0..v : s * s <= v /\ (s + 1) * (s + 1) > v

\* ------------------------------------------------------------ exact numbers

Zero == [n |-> 0, d |-> 1, r |-> 1, e |-> 0]

NaS == [n |-> 0, d |-> 0, r |-> 0, e |-> 0]

\* the canonical record of (num / den) * sqrt(rad) * pi^(e/2); den # 0, rad square-free
Num(num, den, rad, e) ==
    IF num = 0 THEN Zero
    ELSE LET g == Gcd(num, den)
             s == Sgn(den)
         IN  [n |-> s * (num \div g), d |-> s * (den \div g), r |-> rad, e |-> e]

Rat(num, den) == Num(num, den, 1, 0)

One == Rat(1, 1)

SMul(a, b) ==
    IF a = NaS \/ b = NaS THEN NaS
    ELSE IF a = Zero \/ b = Zero THEN Zero
    ELSE LET g == Gcd(a.r, b.r)
         IN  Num(a.n * b.n * g, a.d * b.d, (a.r \div g) * (b.r \div g), a.e + b.e)

SNeg(a) == IF a = NaS THEN NaS ELSE [a EXCEPT !.n = -a.n]

\* 1 / a, a # 0:  1 / ((n/d) sqrt(r)) = (d / (n r)) sqrt(r)
SInv(a) ==
    IF a = NaS \/ a = Zero THEN NaS
    ELSE Num(a.d, a.n * a.r, a.r, -a.e)

SAdd(a, b) ==
    IF a = NaS \/ b = NaS THEN NaS
    ELSE IF a = Zero THEN b
    ELSE IF b = Zero THEN a
    ELSE IF a.r = b.r /\ a.e = b.e
         THEN Num(a.n * b.d + b.n * a.d, a.d * b.d, a.r, a.e)
         ELSE NaS

\* sqrt(num / den) for integers num, den > 0
SqrtRat(num, den) ==
    LET g == Gcd(num, den)
        v == (num \div g) * (den \div g)
        s == SquarePart(v)
    IN  Num(s, den \div g, v \div (s * s), 0)

\* pi^(h/2)
PiPow(h) == [n |-> 1, d |-> 1, r |-> 1, e |-> h]

RECURSIVE SSum(_)
SSum(seq) == IF seq = <<>> THEN Zero ELSE SAdd(Head(seq), SSum(Tail(seq)))

\* -------------------------------------------------- sympy's factorial (Gamma)

\* (2h - 1)!! for h >= 0; (-1)!! = 1
RECURSIVE OddFact(_)
OddFact(h) == IF h <= 0 THEN 1 ELSE (2 * h - 1) * OddFact(h - 1)

\* factorial(Rational(t2, 2)) as SA, SB and SC call it.  An integer >= 0 gives
\* the integer factorial.  A negative integer is the one invalid argument: Gamma
\* has a pole there (sympy answers zoo), and ok is FALSE.  A half-integer is a
\* valid argument, factorial(h - 1/2) = Gamma(h + 1/2):
\*   (2h-1)!! / 2^h * sqrt(pi)       for h >= 0,
\*   (-2)^g / (2g-1)!! * sqrt(pi)    for h = -g < 0.
Factorial(t2) ==
    IF t2 % 2 = 0
    THEN IF t2 >= 0
         THEN [ok |-> TRUE, val |-> Rat(IntFact(t2 \div 2), 1)]
         ELSE [ok |-> FALSE, val |-> NaS]
    ELSE LET h == (t2 + 1) \div 2
         IN  IF h >= 0
             THEN [ok |-> TRUE, val |-> Num(OddFact(h), Pow(2, h), 1, 1)]
             ELSE [ok |-> TRUE,
                   val |-> Num(Pow(-2, -h), OddFact(-h), 1, 1)]

\* ------------------------------------------------------------ SA, SB and SC

KroneckerDelta(a, b) == IF a = b THEN 1 ELSE 0

\* SA without the Kronecker delta
SA_no_delta(l, m) ==
    IF l - m < 0 \/ l + m < 0 THEN NaS
    ELSE SMul(SqrtRat(2 * (2 * l + 1) * IntFact(l - m), 4 * IntFact(l + m)),
              PiPow(-1))

\* sqrt((2 - delta(m,0)) (2l+1) (l-m)! / (4 pi (l+m)!))
SA(l, m) ==
    IF l - m < 0 \/ l + m < 0 THEN NaS
    ELSE
    SMul(SqrtRat((2 - KroneckerDelta(m, 0)) * (2 * l + 1) * IntFact(l - m),
                 4 * IntFact(l + m)),
         PiPow(-1))

\* the ratio of SB with an except clause that sets ratio = 1
SBRatio_one(l, m, k) ==
    LET fa == Factorial(l + m + k - 1)
        fb == Factorial(-l + m + k - 1)
    IN  IF ~fb.ok THEN One
        ELSE IF ~fa.ok THEN NaS
        ELSE SMul(fa.val, SInv(fb.val))

\* the guarded ratio of SB: factorial((l+m+k-1)/2) / factorial((-l+m+k-1)/2).
\* An invalid (negative integer) argument of the denominator makes the ratio 0,
\* whether by x / zoo = 0 or by the except clause.
SBRatio(l, m, k) ==
    LET fa == Factorial(l + m + k - 1)
        fb == Factorial(-l + m + k - 1)
    IN  IF ~fb.ok THEN Zero
        ELSE IF ~fa.ok THEN NaS
        ELSE SMul(fa.val, SInv(fb.val))

\* SB without the factor 2 ** l
SB_no_pow(l, m, j, k) ==
    IF m < 0 \/ j < 0 \/ k < 0 \/ m - j < 0 \/ l - m - k < 0 THEN NaS
    ELSE SMul(Rat(IntFact(m),
                  IntFact(j) * IntFact(k) * IntFact(m - j) * IntFact(l - m - k)),
              SBRatio(l, m, k))

SB(l, m, j, k) ==
    IF m < 0 \/ j < 0 \/ k < 0 \/ m - j < 0 \/ l - m - k < 0 THEN NaS
    ELSE
    SMul(SMul(Rat(Pow(2, l), 1),
              Rat(IntFact(m),
                  IntFact(j) * IntFact(k) * IntFact(m - j) * IntFact(l - m - k))),
         SBRatio(l, m, k))

\* (k/2)! / ((q/2)! ((k-p)/2)! ((p-q)/2)!)
SC(p, q, k) ==
    LET fk == Factorial(k)
        fq == Factorial(q)
        fkp == Factorial(k - p)
        fpq == Factorial(p - q)
    IN  IF fk.ok /\ fq.ok /\ fkp.ok /\ fpq.ok
        THEN SMul(fk.val, SInv(SMul(fq.val, SMul(fkp.val, fpq.val))))
        ELSE NaS

\* ------------------------------------------------------------- poly_basis

\* poly_basis with m = n - l * l in place of n - l * l - l
poly_basis_no_l(n) ==
    LET l == FloorSqrt(n)
        m == n - l * l
        mu == l - m
        nu == l + m
    IN  IF nu % 2 = 0
        THEN [i2 |-> mu, j2 |-> nu, k |-> 0]
        ELSE [i2 |-> mu - 1, j2 |-> nu - 1, k |-> 1]

\* lines 96-97: l = floor(sqrt(n)), m = n - l * l - l
\* poly_basis: the exponents poly_basis(n) gives x, y and z.  Rational(mu, 2) is
\* kept as its numerator over 2: i2 = 2 i and j2 = 2 j.
Decompose(n) ==
    LET l == FloorSqrt(n)
    IN  [l |-> l, m |-> n - l * l - l]

poly_basis(n) ==
    LET l == Decompose(n).l
        m == Decompose(n).m
        mu == l - m
        nu == l + m
    IN  IF nu % 2 = 0
        THEN [i2 |-> mu, j2 |-> nu, k |-> 0]
        ELSE [i2 |-> mu - 1, j2 |-> nu - 1, k |-> 1]

\* x^i y^j z^k as a monomial; None when an exponent is not a natural number
\* (then the term is no monomial of the basis)
None == <<-1, -1, -1>>

Monomial(pb) ==
    IF pb.i2 % 2 = 0 /\ pb.j2 % 2 = 0 /\ pb.i2 >= 0 /\ pb.j2 >= 0
    THEN <<pb.i2 \div 2, pb.j2 \div 2, pb.k>>
    ELSE None

\* ------------------------------------------------------ symbolic expressions

EmptyPoly == [t \in {} |-> Zero]

\* expression + c * x^a y^b z^c  (res += ... in Y)
PolyAdd(P, mono, c) ==
    IF c = Zero THEN P
    ELSE IF mono \in DOMAIN P
         THEN LET s == SAdd(P[mono], c)
              IN  IF s = Zero
                  THEN [t \in DOMAIN P \ {mono} |-> P[t]]
                  ELSE [P EXCEPT ![mono] = s]
         ELSE [t \in DOMAIN P \cup {mono} |-> IF t = mono THEN c ELSE P[t]]

\* expression.coeff(term): the terms of the expression that hold every factor of
\* `term` (x^i, y^j, z^k with a positive exponent) with exactly that exponent,
\* each divided by `term`; what is left of a term may still hold x, y or z.
Residual(t, term) ==
    <<IF term[1] > 0 THEN 0 ELSE t[1],
      IF term[2] > 0 THEN 0 ELSE t[2],
      IF term[3] > 0 THEN 0 ELSE t[3]>>

Coeff(P, term) ==
    IF term = None THEN EmptyPoly
    ELSE LET match == {t \in DOMAIN P :
                          /\ term[1] > 0 => t[1] = term[1]
                          /\ term[2] > 0 => t[2] = term[2]
                          /\ term[3] > 0 => t[3] = term[3]}
         IN  [u \in {Residual(t, term) : t \in match} |->
                 P[CHOOSE t \in match : Residual(t, term) = u]]

\* .subs(sqrt(1 - x**2 - y**2), 0).subs(x, 0).subs(y, 0)
SubsZero(P) == IF <<0, 0, 0>> \in DOMAIN P THEN P[<<0, 0, 0>>] ELSE Zero

\* the sum of every coefficient of an expression
RECURSIVE SumAll(_, _)
SumAll(P, dom) ==
    IF dom = {} THEN Zero
    ELSE LET t == CHOOSE u \in dom : TRUE
         IN  SAdd(P[t], SumAll(P, dom \ {t}))

\* Coefficient without the line that sets what is left of x, y and z to zero
Coefficient_no_subs(expression, term) ==
    SumAll(Coeff(expression, term), DOMAIN Coeff(expression, term))

Coefficient(expression, term) == SubsZero(Coeff(expression, term))

\* ----------------------------------------------------------------------- Y

\* range(lo, hi, step) as a set
PyRange(lo, hi, step) == {v \in lo..(hi - 1) : (v - lo) % step = 0}

\* the iterations of the loop nests of Y(l, m): br = 0 is the nest over even k
\* (lines 143-146, 153-156), br = 1 the nest over odd k (147-150, 157-160)
\* the even-k nest with p running two steps too far
EvenNest_long_p(l, am, j) ==
    UNION {UNION {{[br |-> 0, j |-> j, k |-> k, p |-> p, q |-> q] :
                      q \in PyRange(0, p + 1, 2)} :
                  p \in PyRange(0, k + 3, 2)} :
           k \in PyRange(0, l - am + 1, 2)}

EvenNest(l, am, j) ==
    UNION {UNION {{[br |-> 0, j |-> j, k |-> k, p |-> p, q |-> q] :
                      q \in PyRange(0, p + 1, 2)} :
                  p \in PyRange(0, k + 1, 2)} :
           k \in PyRange(0, l - am + 1, 2)}

OddNest(l, am, j) ==
    UNION {UNION {{[br |-> 1, j |-> j, k |-> k, p |-> p, q |-> q] :
                      q \in PyRange(0, p + 1, 2)} :
                  p \in PyRange(0, k, 2)} :
           k \in PyRange(1, l - am + 1, 2)}

YIterSet(l, m) ==
    LET am == Abs(m)
        js == IF m >= 0 THEN PyRange(0, m + 1, 2) ELSE PyRange(1, am + 1, 2)
    IN  UNION {EvenNest(l, am, j) \cup OddNest(l, am, j) : j \in js}

\* the order in which the loops run: j outermost, the even-k nest before the
\* odd-k nest, then k, p, q
Before(u, v) ==
    \/ u.j < v.j
    \/ u.j = v.j /\ u.br < v.br
    \/ u.j = v.j /\ u.br = v.br /\ u.k < v.k
    \/ u.j = v.j /\ u.br = v.br /\ u.k = v.k /\ u.p < v.p
    \/ u.j = v.j /\ u.br = v.br /\ u.k = v.k /\ u.p = v.p /\ u.q < v.q

YIters(l, m) ==
    LET S == YIterSet(l, m)
    IN  [i \in 1..Cardinality(S) |->
            CHOOSE u \in S : Cardinality({v \in S : Before(v, u)}) = i - 1]

\* the odd-k nest giving SC k in place of k - 1
SCArg_k(it) == it.k

\* the third argument of SC: k in the even nest, k - 1 in the odd nest
SCArg(it) == it.k - it.br

\* the monomial with x ** (m - j + p - q) in place of x ** (abs(m) - j + p - q)
YMono_no_abs(m, it) == <<m - it.j + it.p - it.q, it.j + it.q, it.br>>

\* the monomial of a term: x ** (abs(m) - j + p - q) * y ** (j + q), times z in
\* the odd-k nest (for m >= 0, abs(m) = m)
YMono(m, it) == <<Abs(m) - it.j + it.p - it.q, it.j + it.q, it.br>>

\* the term one iteration adds to res: the arguments it gives SA, SB and SC,
\* their values, its monomial and its coefficient
YTerm(l, m, it) ==
    LET am == Abs(m)
        kc == SCArg(it)
        sexp == IF m >= 0 THEN (it.j + it.p) \div 2 ELSE (it.j + it.p - 1) \div 2
        sign == IF sexp % 2 = 0 THEN One ELSE SNeg(One)
        sa == SA(l, am)
        sb == SB(l, am, it.j, it.k)
        sc == SC(it.p, it.q, kc)
    IN  [l |-> l, am |-> am, j |-> it.j, k |-> it.k, p |-> it.p, q |-> it.q,
         kc |-> kc, sa |-> sa, sb |-> sb, sc |-> sc,
         mono |-> YMono(m, it),
         coef |-> SMul(sign, SMul(sa, SMul(sb, sc)))]

\* Y(l, m) after its first i iterations
RECURSIVE YPartial(_, _, _)
YPartial(l, m, i) ==
    IF i = 0 THEN EmptyPoly
    ELSE LET t == YTerm(l, m, YIters(l, m)[i])
         IN  PolyAdd(YPartial(l, m, i - 1), t.mono, t.coef)

Y(l, m) == YPartial(l, m, Len(YIters(l, m)))

\* ---------------------------------------------------------------- p_Y, A1

NBasis(lmax) == (lmax + 1) * (lmax + 1)

\* entry n (from 0) of p_Y: the constant term for n = 0 (line 167), the
\* coefficient of poly_basis(n) otherwise (line 169)
PYEntry(ylm, n) ==
    IF n = 0 THEN SubsZero(ylm)
    ELSE Coefficient(ylm, Monomial(poly_basis(n)))

p_Y(l, m, lmax) ==
    LET ylm == Y(l, m)
    IN  [i \in 1..NBasis(lmax) |-> PYEntry(ylm, i - 1)]

\* the default of A1's parameter norm, 2 / sqrt(pi)
NormDefault == Num(2, 1, 1, -1)

Norms == {NormDefault, One}

\* zeros(rows, cols); matrices are indexed from 0, Mat[row][col]
Zeros(rows, cols) == [r \in 0..(rows - 1) |-> [c \in 0..(cols - 1) |-> Zero]]

\* res[n] = list storing the list as row n
SetItem_row(mat, size, n, list) ==
    IF n >= size \/ Len(list) > size THEN <<"error">>
    ELSE [r \in 0..(size - 1) |->
            [c \in 0..(size - 1) |->
                IF r = n /\ c < Len(list) THEN list[c + 1] ELSE mat[r][c]]]

\* res[n] = list, for a sympy Matrix res and a Python list: the key n is the
\* flat index, divmod(n, cols) = (i, j), the list becomes a column vector and
\* is copied in with its top at (i, j).  It fits only when it ends inside the
\* matrix; otherwise sympy raises and the result is Overflow.
Overflow == <<"error">>

SetItem(mat, size, n, list) ==
    LET i == n \div size
        j == n % size
    IN  IF n >= size * size \/ i + Len(list) > size THEN Overflow
        ELSE [r \in 0..(size - 1) |->
                [c \in 0..(size - 1) |->
                    IF c = j /\ r >= i /\ r < i + Len(list)
                    THEN list[r - i + 1] ELSE mat[r][c]]]

\* res * norm
Scale(mat, size, nrm) ==
    [r \in 0..(size - 1) |-> [c \in 0..(size - 1) |-> SMul(mat[r][c], nrm)]]

\* the loops with "for m in range(-l, l)"
NextPair_short(l, m) == IF m < l - 1 THEN <<l, m + 1>> ELSE <<l + 1, -(l + 1)>>

\* the pair after (l, m) in "for l in range(lmax + 1): for m in range(-l, l + 1)"
NextPair(l, m) == IF m < l THEN <<l, m + 1>> ELSE <<l + 1, -(l + 1)>>

\* --------------------------------------------------------- Matrix(...).inv()

\* hstack(mat, eye(size))
Augment(mat, size) ==
    [r \in 0..(size - 1) |->
        [c \in 0..(2 * size - 1) |->
            IF c < size THEN mat[r][c] ELSE IF c - size = r THEN One ELSE Zero]]

PivotRows(aug, size, col) == {r \in col..(size - 1) : aug[r][col] # Zero}

\* one column of the Gauss-Jordan reduction: the first row at or below the
\* diagonal with a non-zero entry is swapped up and divided by its pivot, and
\* the column is cleared in every other row
Eliminate(aug, size, col) ==
    LET pr == CHOOSE r \in PivotRows(aug, size, col) :
                  \A r2 \in PivotRows(aug, size, col) : r <= r2
        swapped == [r \in 0..(size - 1) |->
                       IF r = col THEN aug[pr] ELSE IF r = pr THEN aug[col] ELSE aug[r]]
        inv == SInv(swapped[col][col])
        prow == [c \in 0..(2 * size - 1) |-> SMul(swapped[col][c], inv)]
    IN  [r \in 0..(size - 1) |->
            IF r = col THEN prow
            ELSE [c \in 0..(2 * size - 1) |->
                     SAdd(swapped[r][c], SNeg(SMul(swapped[r][col], prow[c])))]]

\* the right half of the reduced matrix
RightHalf(aug, size) ==
    [r \in 0..(size - 1) |-> [c \in 0..(size - 1) |-> aug[r][c + size]]]

\* Matrix([0, .., 1, .., 0]) with the 1 at index c
Indicator(size, c) == [i \in 0..(size - 1) |-> IF i = c THEN One ELSE Zero]

RECURSIVE Dot(_, _, _)
Dot(row, v, i) ==
    IF i < 0 THEN Zero ELSE SAdd(SMul(row[i], v[i]), Dot(row, v, i - 1))

\* simplify(M * vec)
MatVec(mat, size, v) == [r \in 0..(size - 1) |-> Dot(mat[r], v, size - 1)]

\* -------------------------------------------------------------------- state

VARIABLES
    pc,       \* where the notebook is
    lmax,     \* A1's argument lmax
    norm,     \* A1's argument norm
    res,      \* A1's matrix res
    n,        \* A1's counter n
    l,        \* A1's loop variable l, the l of p_Y and Y
    m,        \* A1's loop variable m, the m of p_Y and Y
    writes,   \* the values of n at which A1 has executed res[n] = ...
    it,       \* the number of iterations Y has run
    yres,     \* Y's accumulator res
    call,     \* the last iteration of Y: the arguments it gave SB and SC, its term
    terms,    \* the terms Y has added to res, in order
    ylm,      \* p_Y's ylm
    pres,     \* p_Y's list res
    pn,       \* p_Y's loop variable n
    aug,      \* the augmented matrix that inv() reduces
    col,      \* the column inv() reduces next
    M,        \* the notebook's M
    vec,      \* the index of the 1 in vec
    ycoeffs,  \* the notebook's ycoeffs
    pbn,      \* the argument of a direct call poly_basis(n)
    pbout,    \* its result
    sbarg,    \* the arguments <<l, m, j, k>> of a direct call of SB
    sbout     \* its result

vars == <<pc, lmax, norm, res, n, l, m, writes, it, yres, call, terms, ylm, pres,
          pn, aug, col, M, vec, ycoeffs, pbn, pbout, sbarg, sbout>>

a1vars == <<lmax, norm, res, n, l, m, writes>>
yvars == <<it, yres, call, terms>>
pyvars == <<ylm, pres, pn>>
invvars == <<aug, col, M, vec, ycoeffs>>
callvars == <<pbn, pbout, sbarg, sbout>>

NoCall == [l |-> -1]

Init ==
    /\ pc = "start"
    /\ lmax = 0
    /\ norm = NormDefault
    /\ res = <<>>
    /\ n = 0
    /\ l = 0
    /\ m = 0
    /\ writes = <<>>
    /\ it = 0
    /\ yres = EmptyPoly
    /\ call = NoCall
    /\ terms = <<>>
    /\ ylm = EmptyPoly
    /\ pres = <<>>
    /\ pn = 0
    /\ aug = <<>>
    /\ col = 0
    /\ M = <<>>
    /\ vec = -1
    /\ ycoeffs = <<>>
    /\ pbn = -1
    /\ pbout = [i2 |-> 0, j2 |-> 0, k |-> 0]
    /\ sbarg = <<>>
    /\ sbout = Zero

\* a cell calls poly_basis(n)
PolyBasisCall ==
    /\ pc = "start"
    /\ \E nn \in 0..MaxBasisN :
        /\ pbn' = nn
        /\ pbout' = poly_basis(nn)
    /\ pc' = "pb_done"
    /\ UNCHANGED <<a1vars, yvars, pyvars, invvars, sbarg, sbout>>

\* a cell calls SB(l, m, j, k) with 0 <= j <= m <= l and 0 <= k <= l - m
SBCall ==
    /\ pc = "start"
    /\ \E sl \in 0..MaxSBl : \E sm \in 0..sl : \E sj \in 0..sm : \E sk \in 0..(sl - sm) :
        /\ sbarg' = <<sl, sm, sj, sk>>
        /\ sbout' = SB(sl, sm, sj, sk)
    /\ pc' = "sb_done"
    /\ UNCHANGED <<a1vars, yvars, pyvars, invvars, pbn, pbout>>

\* A1(lmax, norm) is called: lines 174-175 and the first pair of the loops
A1Begin ==
    /\ pc = "start"
    /\ \E lm \in 0..MaxLmax : \E nrm \in Norms :
        /\ lmax' = lm
        /\ norm' = nrm
        /\ res' = Zeros(NBasis(lm), NBasis(lm))
    /\ n' = 0
    /\ l' = 0
    /\ m' = 0
    /\ writes' = <<>>
    /\ pc' = "A1_loop"
    /\ UNCHANGED <<yvars, pyvars, invvars, callvars>>

\* line 178 calls p_Y(l, m, lmax), line 166 calls Y(l, m): lines 139-140
PYBegin ==
    /\ pc = "A1_loop"
    /\ l <= lmax
    /\ it' = 0
    /\ yres' = EmptyPoly
    /\ call' = NoCall
    /\ terms' = <<>>
    /\ pc' = "Y_loop"
    /\ UNCHANGED <<a1vars, pyvars, invvars, callvars>>

\* one iteration of a loop nest of Y: res += ... (lines 146, 150, 156, 160)
YStep ==
    /\ pc = "Y_loop"
    /\ it < Len(YIters(l, m))
    /\ LET t == YTerm(l, m, YIters(l, m)[it + 1])
       IN  /\ call' = t
           /\ yres' = PolyAdd(yres, t.mono, t.coef)
           /\ terms' = Append(terms, [mono |-> t.mono, coef |-> t.coef])
    /\ it' = it + 1
    /\ UNCHANGED <<pc, a1vars, pyvars, invvars, callvars>>

\* Y returns res (line 162); p_Y starts its list with the constant term (167)
YReturn ==
    /\ pc = "Y_loop"
    /\ it = Len(YIters(l, m))
    /\ ylm' = yres
    /\ pres' = <<SubsZero(yres)>>
    /\ pn' = 1
    /\ pc' = "pY_loop"
    /\ UNCHANGED <<a1vars, yvars, invvars, callvars>>

\* lines 168-169: res.append(Coefficient(ylm, poly_basis(n, x, y)))
PYAppend ==
    /\ pc = "pY_loop"
    /\ pn < NBasis(lmax)
    /\ pres' = Append(pres, Coefficient(ylm, Monomial(poly_basis(pn))))
    /\ pn' = pn + 1
    /\ UNCHANGED <<pc, ylm, a1vars, yvars, invvars, callvars>>

\* p_Y returns (line 170); A1 stores the list and counts: res[n] = ...; n += 1
\* (lines 178-179), and the loops go to the next pair
A1Assign ==
    /\ pc = "pY_loop"
    /\ pn >= NBasis(lmax)
    /\ LET new == SetItem(res, NBasis(lmax), n, pres)
       IN  IF new = Overflow
           THEN /\ pc' = "A1_error"
                /\ UNCHANGED <<res, n, l, m, writes>>
           ELSE /\ res' = new
                /\ writes' = Append(writes, n)
                /\ n' = n + 1
                /\ l' = NextPair(l, m)[1]
                /\ m' = NextPair(l, m)[2]
                /\ pc' = "A1_loop"
    /\ UNCHANGED <<lmax, norm, yvars, pyvars, invvars, callvars>>

\* the loops are over: return res * norm (line 180)
A1Return ==
    /\ pc = "A1_loop"
    /\ l > lmax
    /\ res' = Scale(res, NBasis(lmax), norm)
    /\ pc' = "A1_done"
    /\ UNCHANGED <<lmax, norm, n, l, m, writes, yvars, pyvars, invvars, callvars>>

\* M = Matrix(A1(lmax)).inv() (line 248) starts
InvBegin ==
    /\ pc = "A1_done"
    /\ aug' = Augment(res, NBasis(lmax))
    /\ col' = 0
    /\ pc' = "inv"
    /\ UNCHANGED <<a1vars, yvars, pyvars, M, vec, ycoeffs, callvars>>

\* inv() reduces one column; a column with no pivot is a singular matrix
InvStep ==
    /\ pc = "inv"
    /\ col < NBasis(lmax)
    /\ IF PivotRows(aug, NBasis(lmax), col) = {}
       THEN /\ pc' = "inv_error"
            /\ UNCHANGED <<aug, col>>
       ELSE /\ aug' = Eliminate(aug, NBasis(lmax), col)
            /\ col' = col + 1
            /\ pc' = pc
    /\ UNCHANGED <<a1vars, yvars, pyvars, M, vec, ycoeffs, callvars>>

\* inv() returns
InvReturn ==
    /\ pc = "inv"
    /\ col = NBasis(lmax)
    /\ M' = RightHalf(aug, NBasis(lmax))
    /\ pc' = "M_ready"
    /\ UNCHANGED <<a1vars, yvars, pyvars, aug, col, vec, ycoeffs, callvars>>

\* a cell "vec = Matrix([0, .., 1, .., 0]); ycoeffs = simplify(M * vec)"
\* (lines 279-280, 313-314, 347-348)
VecCell ==
    /\ pc = "M_ready"
    /\ \E c \in 0..(NBasis(lmax) - 1) :
        /\ vec' = c
        /\ ycoeffs' = MatVec(M, NBasis(lmax), Indicator(NBasis(lmax), c))
    /\ pc' = "done"
    /\ UNCHANGED <<a1vars, yvars, pyvars, aug, col, M, callvars>>

Next ==
    \/ PolyBasisCall
    \/ SBCall
    \/ A1Begin
    \/ PYBegin
    \/ YStep
    \/ YReturn
    \/ PYAppend
    \/ A1Assign
    \/ A1Return
    \/ InvBegin
    \/ InvStep
    \/ InvReturn
    \/ VecCell

Spec == Init /\ [][Next]_vars

\* --------------------------------------------------------------- properties

\* the output of the cell "M = Matrix(A1(2)).inv(); M" as the notebook shows it
Pi(num, den, rad) == Num(num, den, rad, 2)

NotebookM ==
    LET z == Zero
    IN  <<<<Pi(1, 1, 1), z, z, z, Pi(1, 3, 1), z, z, z, Pi(1, 3, 1)>>,
          <<z, z, z, Pi(1, 3, 3), z, z, z, z, z>>,
          <<z, z, Pi(1, 3, 3), z, z, z, z, z, z>>,
          <<z, Pi(1, 3, 3), z, z, z, z, z, z, z>>,
          <<z, z, z, z, z, z, Pi(1, 15, 15), z, z>>,
          <<z, z, z, z, z, z, z, Pi(1, 15, 15), z>>,
          <<z, z, z, z, Pi(-1, 15, 5), z, z, z, Pi(-1, 15, 5)>>,
          <<z, z, z, z, z, Pi(1, 15, 15), z, z, z>>,
          <<z, z, z, z, Pi(1, 15, 15), z, z, z, Pi(-1, 15, 15)>>>>

\* the model computes the matrix the notebook displays for A1(2)
MatchesNotebook ==
    (pc \in {"M_ready", "done"} /\ lmax = 2 /\ norm = NormDefault) =>
        \A r \in 0..8 : \A c \in 0..8 : M[r][c] = NotebookM[r + 1][c + 1]

\* every A1 that is inverted is invertible
Invertible == pc # "inv_error"

\* A1 is running or has run
InA1 == pc \in {"A1_loop", "Y_loop", "pY_loop", "A1_done", "inv", "M_ready", "done"}

\* the pair (l, m) is being processed by the body of A1's loops
InBody == pc \in {"Y_loop", "pY_loop"} \/ (pc = "A1_loop" /\ l <= lmax)

\* Y has run at least one iteration for the current pair
Called == pc \in {"Y_loop", "pY_loop"} /\ call # NoCall

\* the sum of the coefficients of the logged terms whose monomial is mono
RECURSIVE TermSum(_, _)
TermSum(ts, mono) ==
    IF ts = <<>> THEN Zero
    ELSE SAdd(IF Head(ts).mono = mono THEN Head(ts).coef ELSE Zero,
              TermSum(Tail(ts), mono))

\* the value of an expression at x = 0, y = 0, where z = sqrt(1 - 0 - 0) = 1
AtOrigin(P) ==
    LET dom == {t \in DOMAIN P : t[1] = 0 /\ t[2] = 0}
    IN  SumAll([t \in dom |-> P[t]], dom)

\* C1: for every n >= 0, poly_basis(n) is x^i y^j z^k with l = floor(sqrt(n)),
\* m = n - l^2 - l, mu = l - m, nu = l + m, (i, j, k) = (mu/2, nu/2, 0) for even
\* nu and ((mu-1)/2, (nu-1)/2, 1) otherwise; i and j are non-negative integers,
\* k is 0 or 1, i + j + k = l; index 0 is 1, index 1 is x, index 4 is x^2.
C1_PolyBasis ==
    pc = "pb_done" =>
        \A ll \in 0..pbn :
            (ll * ll <= pbn /\ pbn < (ll + 1) * (ll + 1)) =>
                LET mm == pbn - ll * ll - ll
                    mu == ll - mm
                    nu == ll + mm
                IN  /\ pbout.i2 % 2 = 0 /\ pbout.i2 >= 0
                    /\ pbout.j2 % 2 = 0 /\ pbout.j2 >= 0
                    /\ pbout.k \in {0, 1}
                    /\ pbout.i2 + pbout.j2 + 2 * pbout.k = 2 * ll
                    /\ nu % 2 = 0 => pbout = [i2 |-> mu, j2 |-> nu, k |-> 0]
                    /\ nu % 2 = 1 => pbout = [i2 |-> mu - 1, j2 |-> nu - 1, k |-> 1]
                    /\ pbn = 0 => Monomial(pbout) = <<0, 0, 0>>
                    /\ pbn = 1 => Monomial(pbout) = <<1, 0, 0>>
                    /\ pbn = 4 => Monomial(pbout) = <<2, 0, 0>>

C1_Witness == pc = "pb_done" /\ pbn = 7 /\ Monomial(pbout) = <<0, 1, 1>>

\* C2: when A1 processes the pair (l, m) its counter n is l^2 + l + m, which
\* poly_basis's decomposition maps back to (l, m); n stays inside the matrix,
\* and over a whole run the assignments res[n] = ... use 0, 1, ..,
\* (lmax+1)^2 - 1, each once, in this order.
C2_Index ==
    /\ pc # "A1_error"
    /\ InBody =>
        /\ -l <= m /\ m <= l
        /\ n = l * l + l + m
        /\ Decompose(n) = [l |-> l, m |-> m]
        /\ n < NBasis(lmax)
    /\ InA1 => writes = [i \in 1..n |-> i - 1]
    /\ pc \in {"A1_done", "inv", "M_ready", "done"} => n = NBasis(lmax)

C2_Witness == pc = "A1_done" /\ lmax = 2 /\ writes = <<0, 1, 2, 3, 4, 5, 6, 7, 8>>

\* C3 as stated: A1(lmax, norm) is a square matrix of size (lmax+1)^2 whose ROW n
\* is p_Y(l, m, lmax) * norm for the n-th pair (l, m): entry (n, c) is norm times
\* the coefficient of basis element c in Y_{l(n), m(n)}.
C3_Rows ==
    pc = "A1_done" =>
        \A nn \in 0..(NBasis(lmax) - 1) :
            LET v == p_Y(Decompose(nn).l, Decompose(nn).m, lmax)
            IN  \A c \in 0..(NBasis(lmax) - 1) : res[nn][c] = SMul(v[c + 1], norm)

\* C3 amended: A1(lmax, norm) is a square matrix of size (lmax+1)^2 whose COLUMN n
\* is p_Y(l, m, lmax) * norm for the n-th pair (l, m): entry (c, n) is norm times
\* the coefficient of basis element c in Y_{l(n), m(n)}.
C3_Columns ==
    pc = "A1_done" =>
        /\ DOMAIN res = 0..(NBasis(lmax) - 1)
        /\ \A r \in DOMAIN res : DOMAIN res[r] = 0..(NBasis(lmax) - 1)
        /\ \A nn \in 0..(NBasis(lmax) - 1) :
            LET v == p_Y(Decompose(nn).l, Decompose(nn).m, lmax)
            IN  \A c \in 0..(NBasis(lmax) - 1) : res[c][nn] = SMul(v[c + 1], norm)

C3_Witness ==
    pc = "A1_done" /\ lmax = 2 /\ res[0][6] # Zero /\ res[6][0] = Zero

\* the arguments and the result of the call of SB a state shows, if any
SBCalls ==
    (IF pc = "sb_done"
     THEN {[l |-> sbarg[1], m |-> sbarg[2], k |-> sbarg[4], out |-> sbout]}
     ELSE {})
    \cup
    (IF Called
     THEN {[l |-> call.l, m |-> call.am, k |-> call.k, out |-> call.sb]}
     ELSE {})

\* C4 as stated: SB returns 0 whenever a factorial argument of its ratio,
\* (l+m+k-1)/2 or (-l+m+k-1)/2, is negative or not an integer.
C4_ZeroIfNegativeOrFraction ==
    \A c \in SBCalls :
        LET a2 == c.l + c.m + c.k - 1
            b2 == -c.l + c.m + c.k - 1
        IN  (a2 < 0 \/ a2 % 2 = 1 \/ b2 < 0 \/ b2 % 2 = 1) => c.out = Zero

\* C4 amended: for 0 <= j <= m <= l and 0 <= k <= l - m, and so for every call Y
\* makes, SB ends without an error; it returns 0 when the factorial argument
\* (-l+m+k-1)/2 is a negative integer, the invalid case, and a non-zero number
\* when the arguments of the ratio are half-integers, negative ones included.
C4_ZeroIffNegativeInteger ==
    \A c \in SBCalls :
        LET b2 == -c.l + c.m + c.k - 1
        IN  /\ c.out # NaS
            /\ (b2 % 2 = 0 /\ b2 < 0) => c.out = Zero
            /\ b2 % 2 = 1 => c.out # Zero

C4_Witness == pc = "sb_done" /\ sbarg = <<2, 1, 0, 0>> /\ sbout = Zero

\* C5 as stated: Y(l, m) at x = 0, y = 0 is 0 unless l = 0.
C5_ZeroUnlessL0 == (pc = "pY_loop" /\ l # 0) => AtOrigin(ylm) = Zero

\* C5 amended: for m # 0 every term Y(l, m) adds carries a positive power of x or
\* of y, and Y(l, m) at x = 0, y = 0 is 0; for l = m = 0 the only term is the
\* constant SA(0, 0) = 1 / (2 sqrt(pi)).
C5_ZeroUnlessM0 ==
    /\ (pc \in {"Y_loop", "pY_loop"} /\ m # 0) =>
        \A i \in 1..Len(terms) : terms[i].mono[1] + terms[i].mono[2] > 0
    /\ (pc = "pY_loop" /\ m # 0) => AtOrigin(ylm) = Zero
    /\ (pc = "pY_loop" /\ l = 0) =>
        /\ terms = <<[mono |-> <<0, 0, 0>>, coef |-> Num(1, 2, 1, -1)]>>
        /\ ylm = [t \in {<<0, 0, 0>>} |-> Num(1, 2, 1, -1)]
        /\ AtOrigin(ylm) = SA(0, 0)

C5_Witness ==
    pc = "pY_loop" /\ l = 2 /\ m = -1 /\ Len(terms) > 0 /\ ylm # EmptyPoly

\* the vector with value at index i and 0 elsewhere, for lmax = 2
OnlyAt(i, value) == [r \in 0..8 |-> IF r = i THEN value ELSE Zero]

\* C6 as stated: for lmax = 2 the monomial x is poly_basis(3), and A1(2)^-1 * e3
\* is sqrt(3) pi / 3 at the Y_{1,1} slot (position 3) and 0 elsewhere.
C6_XAtIndex3 ==
    (pc = "done" /\ lmax = 2 /\ norm = NormDefault /\ vec = 3) =>
        /\ Monomial(poly_basis(3)) = <<1, 0, 0>>
        /\ ycoeffs = OnlyAt(3, Pi(1, 3, 3))

\* C6 amended: for lmax = 2 the monomial x is poly_basis(1), and A1(2)^-1 * e1
\* is sqrt(3) pi / 3 at the Y_{1,1} slot (position 3) and 0 elsewhere.
C6_XAtIndex1 ==
    (pc = "done" /\ lmax = 2 /\ norm = NormDefault /\ vec = 1) =>
        /\ Monomial(poly_basis(1)) = <<1, 0, 0>>
        /\ Decompose(3) = [l |-> 1, m |-> 1]
        /\ ycoeffs = OnlyAt(3, Pi(1, 3, 3))

C6_Witness ==
    pc = "done" /\ lmax = 2 /\ norm = NormDefault /\ vec = 1 /\ ycoeffs[3] # Zero

\* C7: for lmax = 2, A1(2)^-1 times the indicator vector of x^2 (index 4) is
\* [pi/3, 0, 0, 0, 0, 0, -sqrt(5) pi/15, 0, sqrt(15) pi/15].
C7_XSquared ==
    (pc = "done" /\ lmax = 2 /\ norm = NormDefault /\ vec = 4) =>
        /\ Monomial(poly_basis(4)) = <<2, 0, 0>>
        /\ ycoeffs = [r \in 0..8 |->
                         IF r = 0 THEN Pi(1, 3, 1)
                         ELSE IF r = 6 THEN Pi(-1, 15, 5)
                         ELSE IF r = 8 THEN Pi(1, 15, 15)
                         ELSE Zero]

C7_Witness ==
    pc = "done" /\ lmax = 2 /\ norm = NormDefault /\ vec = 4 /\ ycoeffs[6] # Zero

\* C8: entry n of p_Y(l, m, lmax) is the sum of the coefficients of exactly the
\* terms of Y(l, m) whose monomial is poly_basis(n) (the constant 1 for n = 0); a
\* term that only holds poly_basis(n) as a proper factor contributes 0.
C8_ExactMonomial ==
    pc = "pY_loop" =>
        \A i \in 1..Len(pres) :
            pres[i] = TermSum(terms, IF i = 1 THEN <<0, 0, 0>>
                                     ELSE Monomial(poly_basis(i - 1)))

\* Y(2, 1) is a multiple of x z: its entry for x (index 1) is 0
C8_Witness ==
    /\ pc = "pY_loop" /\ l = 2 /\ m = 1 /\ Len(pres) >= 2
    /\ <<1, 0, 1>> \in DOMAIN ylm
    /\ Coeff(ylm, <<1, 0, 0>>) # EmptyPoly
    /\ pres[2] = Zero

\* C9: each term Y(l, m) adds is x^a y^b z^c with a, b >= 0, c in {0, 1} and
\* a + b + c <= l; it is poly_basis(n') for exactly one n', n' = d^2 + d + (b - a)
\* with d = a + b + c, and n' < (l+1)^2; no term of Y(l, m) is outside the basis
\* p_Y reads, and the entries of p_Y(l, m, lmax) from index (l+1)^2 on are 0.
C9_TermsInBasis ==
    /\ Called =>
        LET a == call.mono[1]
            b == call.mono[2]
            c == call.mono[3]
            d == a + b + c
            np == d * d + d + (b - a)
        IN  /\ a >= 0 /\ b >= 0 /\ c \in {0, 1}
            /\ d <= l
            /\ np >= 0 /\ np < (l + 1) * (l + 1)
            /\ Monomial(poly_basis(np)) = call.mono
            /\ \A n2 \in 0..(NBasis(lmax) - 1) :
                   Monomial(poly_basis(n2)) = call.mono => n2 = np
    /\ pc = "pY_loop" =>
        /\ \A t \in DOMAIN ylm :
               \E n2 \in 0..(NBasis(lmax) - 1) : Monomial(poly_basis(n2)) = t
        /\ \A i \in 1..Len(pres) : i - 1 >= (l + 1) * (l + 1) => pres[i] = Zero

C9_Witness ==
    /\ pc = "pY_loop" /\ lmax = 2 /\ l = 1 /\ m = 0 /\ Len(pres) = 9
    /\ call.mono = <<0, 0, 1>>

\* C10: at every call Y(l, m) makes, the factorial arguments outside SB's guarded
\* ratio are non-negative integers: |m|, j, k, |m| - j, l - |m| - k in SB, and
\* K/2, q/2, (K - p)/2, (p - q)/2 in SC(p, q, K); so SA, SB and SC get no negative
\* or fractional factorial argument there, and no zero denominator.
C10_FactorialArgs ==
    Called =>
        /\ call.am >= 0 /\ call.j >= 0 /\ call.k >= 0
        /\ call.am - call.j >= 0
        /\ call.l - call.am - call.k >= 0
        /\ call.kc % 2 = 0 /\ call.kc >= 0
        /\ call.q % 2 = 0 /\ call.q >= 0
        /\ (call.kc - call.p) % 2 = 0 /\ call.kc - call.p >= 0
        /\ (call.p - call.q) % 2 = 0 /\ call.p - call.q >= 0
        /\ call.sa # NaS /\ call.sa # Zero
        /\ call.sb # NaS
        /\ call.sc # NaS /\ call.sc # Zero

C10_Witness == pc = "Y_loop" /\ call # NoCall /\ call.k = 3 /\ call.kc = 2 /\ call.p = 2

====
